---- MODULE Spec2Model ----
(***************************************************************************)
(* A model of QMatrixClient::Room (src/lib/room.cpp): the room's state,    *)
(* the state / message / ephemeral event handlers, the display name        *)
(* algorithm and the backward pagination control.                          *)
(*                                                                         *)
(* Two Room objects are modelled (Rooms), both created by the same         *)
(* Connection, so that they share its User objects.  Every handler is an   *)
(* operator from the program state before the call (a record W holding     *)
(* every variable) to the program state after it; an action applies one    *)
(* handler to the current state.                                           *)
(***************************************************************************)
EXTENDS Integers, Sequences, FiniteSets, TLC

\* ------------------------------------------------------------------ bounds
NumUsers == 4          \* User objects of the connection, ids Ids[1..NumUsers]
NumMembers == 2        \* users that member events and renames are about
MaxKey == 3            \* intra-timeline ordering keys 1..MaxKey
MaxTimeline == 3       \* events kept in a timeline
MaxJobs == 2           \* RoomMessagesJob objects outstanding per room
MaxPage == 2           \* events in one timeline batch or one fetched page

Rooms == {1, 2}
Users == 1..NumUsers
Ids == <<"@a:s", "@b:s", "@c:s", "@d:s", "@e:s">>
Names == {"", "Ann"}                 \* values of User::name()
RoomNames == {"", "Team"}            \* values of RoomNameEvent::name()
Aliases == {"", "#team:s"}           \* values of RoomCanonicalAliasEvent::alias()
Topics == {"", "News"}               \* values of RoomTopicEvent::topic()
Tokens == {"", "t1", "t2"}           \* pagination tokens; "" is QString()
Memberships == {"Join", "Leave", "Invite"}
JoinStates == {"Join", "Leave"}
NoUser == 0

\* ------------------------------------------------------------------ state
VARIABLES
    id,                 \* Room::Private::id
    name,               \* Room::Private::name
    canonicalAlias,     \* Room::Private::canonicalAlias
    aliases,            \* Room::Private::aliases
    topic,              \* Room::Private::topic
    displayname,        \* Room::Private::displayname
    joinState,          \* Room::Private::joinState
    highlightCount,     \* Room::Private::highlightCount
    notificationCount,  \* Room::Private::notificationCount
    users,              \* Room::Private::users: name -> values, newest first
    usersTyping,        \* Room::Private::usersTyping
    usersLeft,          \* Room::Private::usersLeft
    lastReadEvent,      \* Room::Private::lastReadEvent
    prevBatch,          \* Room::Private::prevBatch
    gettingNewContent,  \* Room::Private::gettingNewContent
    messageEvents,      \* Room::Private::messageEvents
    userName,           \* User::name() of every User of the connection
    nameChanged,        \* slots connected to each User's nameChanged signal
    jobs,               \* RoomMessagesJob objects started and not yet finished
    me,                 \* Connection::user()
    debugBuild,         \* the build has no NDEBUG (room.cpp:206)
    hashOrder,          \* iteration order of the keys of the users hash
    nullRead,           \* what a read through a null Event* does in this build
    crashed,            \* the process was terminated by an invalid access
    synced,             \* history: updateData has been called on the room
    spy,                \* an observer records signals and handler calls
    log                 \* what the observer saw during the last operation

roomVars == <<id, name, canonicalAlias, aliases, topic, displayname, joinState,
              highlightCount, notificationCount, users, usersTyping, usersLeft,
              lastReadEvent, prevBatch, gettingNewContent, messageEvents>>
envVars == <<userName, nameChanged, jobs, me, debugBuild, hashOrder, spy,
            nullRead, crashed>>
vars == <<roomVars, envVars, synced, log>>

\* The whole program state as one record, the argument of every handler.
World ==
    [id |-> id, name |-> name, canonicalAlias |-> canonicalAlias,
     aliases |-> aliases, topic |-> topic, displayname |-> displayname,
     joinState |-> joinState, highlightCount |-> highlightCount,
     notificationCount |-> notificationCount, users |-> users,
     usersTyping |-> usersTyping, usersLeft |-> usersLeft,
     lastReadEvent |-> lastReadEvent, prevBatch |-> prevBatch,
     gettingNewContent |-> gettingNewContent, messageEvents |-> messageEvents,
     userName |-> userName, nameChanged |-> nameChanged, jobs |-> jobs,
     crashed |-> crashed, log |-> <<>>]

\* ------------------------------------------------------------------ events
\* One record shape for every Event subclass; unused fields are blank.
Event(t, k, u, m, s, l) ==
    [type |-> t, key |-> k, userId |-> u, membership |-> m, text |-> s, ids |-> l]
RoomNameEvent(n) == Event("RoomName", 1, NoUser, "", n, <<>>)
RoomAliasesEvent(a) == Event("RoomAliases", 1, NoUser, "", a, <<>>)
RoomCanonicalAliasEvent(a) == Event("RoomCanonicalAlias", 1, NoUser, "", a, <<>>)
RoomTopicEvent(t) == Event("RoomTopic", 1, NoUser, "", t, <<>>)
RoomMemberEvent(u, m, n) == Event("RoomMember", 1, u, m, n, <<>>)
RoomMessageEvent(k) == Event("RoomMessage", k, NoUser, "", "", <<>>)
TypingEvent(l) == Event("Typing", 1, NoUser, "", "", l)
ReceiptEvent(eventId, l) == Event("Receipt", 1, NoUser, "", eventId, l)
NoEvent == Event("", 0, NoUser, "", "", <<>>)

\* Record of one signal emission or handler call, as the observer sees it.
Entry(what, r, e) == [what |-> what, room |-> r, event |-> e]
Emit(W, what, r, e) == [W EXCEPT !.log = Append(@, Entry(what, r, e))]

\* Reading through a null Event* is undefined: the access terminates the
\* process, or it yields the zero bytes of an event of unknown type and key 0.
NullReads == {"crash", "zero"}
crash(W) == [W EXCEPT !.crashed = TRUE]

\* ------------------------------------------------------------------ helpers
UserId(u) == Ids[u]
\* u1->id() < u2->id(): Ids is listed in lexicographic order
IdLess(u1, u2) == u1 < u2

contains(s, x) == \E i \in 1..Len(s) : s[i] = x
removeAll(s, x) == SelectSeq(s, LAMBDA y : y # x)

\* QMultiHash: values(key) lists the most recently inserted value first
hashValues(h, key) == h[key]
hashInsert(h, key, value) == [h EXCEPT ![key] = <<value>> \o @]
hashRemove(h, key, value) == [h EXCEPT ![key] = removeAll(@, value)]

RECURSIVE hashAllValuesFrom(_, _)
hashAllValuesFrom(h, keys) ==
    IF keys = <<>> THEN <<>>
    ELSE h[Head(keys)] \o hashAllValuesFrom(h, Tail(keys))
\* QMultiHash::values(): every value, key by key in the hash's iteration order
hashAllValues(h) == hashAllValuesFrom(h, hashOrder)

\* ------------------------------------------------------------------ display name
\* Room::roomMembername
roomMembername(W, r, u) ==
    LET username == W.userName[u]
        namesakes == hashValues(W.users[r], username)
    IN  IF username = "" THEN UserId(u)
        ELSE IF Len(namesakes) = 1 THEN username
        ELSE IF debugBuild /\ ~contains(namesakes, u) THEN username
        ELSE username \o " <" \o UserId(u) \o ">"

\* The comparison roomNameFromMemberNames hands to std::partial_sort_copy
memberLess(u1, u2) == u1 # me /\ IdLess(u1, u2)

\* std::partial_sort_copy's scan of the input past the first two elements:
\* an element that compares before the heap's top replaces it and is sifted.
RECURSIVE heapScan(_, _)
heapScan(heap, rest) ==
    IF rest = <<>> THEN heap
    ELSE LET y == Head(rest)
             next == IF memberLess(y, heap[1])
                     THEN IF memberLess(heap[2], y) THEN <<y, heap[2]>>
                          ELSE <<heap[2], y>>
                     ELSE heap
         IN  heapScan(next, Tail(rest))

\* std::partial_sort_copy into the two-element first_two{nullptr, nullptr}:
\* copy two, make_heap, scan the rest, sort_heap.
partialSortCopy(userlist) ==
    IF Len(userlist) = 0 THEN <<NoUser, NoUser>>
    ELSE IF Len(userlist) = 1 THEN <<userlist[1], NoUser>>
    ELSE LET heap == IF memberLess(userlist[2], userlist[1])
                     THEN <<userlist[1], userlist[2]>>
                     ELSE <<userlist[2], userlist[1]>>
             sortHeap(h) == <<h[2], h[1]>>
         IN  sortHeap(heapScan(heap, SubSeq(userlist, 3, Len(userlist))))

\* Room::Private::roomNameFromMemberNames
roomNameFromMemberNames(W, r, userlist) ==
    LET named(first_two) ==
            IF Len(userlist) = 2 THEN roomMembername(W, r, first_two[1])
            ELSE IF Len(userlist) = 3
            THEN roomMembername(W, r, first_two[1]) \o " and "
                     \o roomMembername(W, r, first_two[2])
            ELSE IF Len(userlist) > 3
            THEN roomMembername(W, r, first_two[1]) \o " and "
                     \o ToString(Len(userlist) - 3) \o " others"
            ELSE ""
    IN  named(partialSortCopy(userlist))

\* the display name computation trying the canonical alias before the name
calculatedDisplayname_aliasFirst(W, r) ==
    IF W.canonicalAlias[r] # "" THEN W.canonicalAlias[r]
    ELSE IF W.name[r] # "" THEN W.name[r]
    ELSE LET orElse(s, t) == IF s # "" THEN s ELSE t
         IN  orElse(roomNameFromMemberNames(W, r, hashAllValues(W.users[r])),
                    orElse(roomNameFromMemberNames(W, r, W.usersLeft[r]),
                           "Empty room (" \o W.id[r] \o ")"))

\* The string Room::Private::updateDisplayname computes
calculatedDisplayname(W, r) ==
    IF W.name[r] # ""
    THEN IF W.canonicalAlias[r] # ""
         THEN W.name[r] \o " <" \o W.canonicalAlias[r] \o ">"
         ELSE W.name[r]
    ELSE IF W.canonicalAlias[r] # "" THEN W.canonicalAlias[r]
    ELSE LET orElse(s, t) == IF s # "" THEN s ELSE t
         IN  orElse(roomNameFromMemberNames(W, r, hashAllValues(W.users[r])),
                    orElse(roomNameFromMemberNames(W, r, W.usersLeft[r]),
                           "Empty room (" \o W.id[r] \o ")"))

\* Room::Private::updateDisplayname
updateDisplayname(W, r) ==
    LET old_name == W.displayname[r]
        assign(new) ==
            IF old_name # new
            THEN Emit([W EXCEPT !.displayname[r] = new], "namesChanged", r, NoEvent)
            ELSE W
    IN  assign(calculatedDisplayname(W, r))

\* renameUser binding the user under the new name whether or not it was bound
\* under the old one
renameUser_always(W, r, user, oldName) ==
    updateDisplayname(
        [W EXCEPT !.users[r] =
            hashInsert(hashRemove(@, oldName, user), W.userName[user], user)],
        r)

\* Room::Private::renameUser
renameUser(W, r, user, oldName) ==
    IF contains(hashValues(W.users[r], oldName), user)
    THEN updateDisplayname(
             [W EXCEPT !.users[r] =
                 hashInsert(hashRemove(@, oldName, user), W.userName[user], user)],
             r)
    ELSE W

\* Room::userRenamed, the slot connected to User::nameChanged
userRenamed(W, r, user, oldName) == renameUser(W, r, user, oldName)

RECURSIVE emitNameChanged(_, _, _, _)
\* emit nameChanged(user, oldName): the connected slots run in connection order
emitNameChanged(W, slots, user, oldName) ==
    IF slots = <<>> THEN W
    ELSE emitNameChanged(userRenamed(W, Head(slots), user, oldName),
                         Tail(slots), user, oldName)

\* The User takes a new display name: when it differs from the current one the
\* name is stored and nameChanged(user, oldName) is emitted
userSetName(W, u, newName) ==
    IF W.userName[u] # newName
    THEN emitNameChanged([W EXCEPT !.userName[u] = newName],
                         W.nameChanged[u], u, W.userName[u])
    ELSE W

\* User::processEvent
userProcessEvent(W, u, e) ==
    IF e.type = "RoomMember" THEN userSetName(W, u, e.text) ELSE W

\* ------------------------------------------------------------------ handlers
\* processMemberEvent with the Leave branch appending to usersLeft without
\* looking whether the user is already there
processMemberEvent_appendAlways(W, r, e) ==
    LET u == e.userId
        branches(W1) ==
            LET present == contains(hashValues(W1.users[r], W1.userName[u]), u)
            IN  IF e.membership = "Join" /\ ~present
                THEN updateDisplayname(
                         Emit([W1 EXCEPT
                                  !.users[r] = hashInsert(@, W1.userName[u], u),
                                  !.nameChanged[u] = Append(@, r)],
                              "userAdded", r, e),
                         r)
                ELSE IF e.membership = "Leave"
                THEN updateDisplayname(
                         Emit([W1 EXCEPT
                                  !.users[r] =
                                      IF present
                                      THEN hashRemove(@, W1.userName[u], u)
                                      ELSE @,
                                  !.usersLeft[r] = Append(@, u),
                                  !.nameChanged[u] = removeAll(@, r)],
                              "userRemoved", r, e),
                         r)
                ELSE W1
    IN  branches(userProcessEvent(W, u, e))

\* processMemberEvent with a Leave branch that keeps the room connected to the
\* user's nameChanged signal
processMemberEvent_noDisconnect(W, r, e) ==
    LET u == e.userId
        branches(W1) ==
            LET present == contains(hashValues(W1.users[r], W1.userName[u]), u)
            IN  IF e.membership = "Join" /\ ~present
                THEN updateDisplayname(
                         Emit([W1 EXCEPT
                                  !.users[r] = hashInsert(@, W1.userName[u], u),
                                  !.nameChanged[u] = Append(@, r)],
                              "userAdded", r, e),
                         r)
                ELSE IF e.membership = "Leave"
                THEN updateDisplayname(
                         Emit([W1 EXCEPT
                                  !.users[r] =
                                      IF present
                                      THEN hashRemove(@, W1.userName[u], u)
                                      ELSE @,
                                  !.usersLeft[r] = IF ~contains(@, u)
                                                   THEN Append(@, u) ELSE @],
                              "userRemoved", r, e),
                         r)
                ELSE W1
    IN  branches(userProcessEvent(W, u, e))

\* Room::processStateEvent, the RoomMember branch (room.cpp:349-373)
processMemberEvent(W, r, e) ==
    LET u == e.userId
        branches(W1) ==
            LET present == contains(hashValues(W1.users[r], W1.userName[u]), u)
            IN  IF e.membership = "Join" /\ ~present
                THEN updateDisplayname(
                         Emit([W1 EXCEPT
                                  !.users[r] = hashInsert(@, W1.userName[u], u),
                                  !.nameChanged[u] = Append(@, r)],
                              "userAdded", r, e),
                         r)
                ELSE IF e.membership = "Leave"
                THEN updateDisplayname(
                         Emit([W1 EXCEPT
                                  !.users[r] =
                                      IF present
                                      THEN hashRemove(@, W1.userName[u], u)
                                      ELSE @,
                                  !.usersLeft[r] = IF ~contains(@, u)
                                                   THEN Append(@, u) ELSE @,
                                  !.nameChanged[u] = removeAll(@, r)],
                              "userRemoved", r, e),
                         r)
                ELSE W1
    IN  branches(userProcessEvent(W, u, e))

\* Room::processStateEvent
processStateEvent(W, r, e) ==
    LET W0 == Emit(W, "processStateEvent", r, e)
    IN  IF e = NoEvent THEN W0
        ELSE IF e.type = "RoomName"
        THEN updateDisplayname([W0 EXCEPT !.name[r] = e.text], r)
        ELSE IF e.type = "RoomAliases"
        THEN updateDisplayname([W0 EXCEPT !.aliases[r] = e.text], r)
        ELSE IF e.type = "RoomCanonicalAlias"
        THEN updateDisplayname([W0 EXCEPT !.canonicalAlias[r] = e.text], r)
        ELSE IF e.type = "RoomTopic"
        THEN Emit([W0 EXCEPT !.topic[r] = e.text], "topicChanged", r, e)
        ELSE IF e.type = "RoomMember" THEN processMemberEvent(W0, r, e)
        ELSE W0

\* Event::findEarliestAfterMe: the first position of the timeline whose event
\* is not before e in the intra-timeline order (Len + 1 when there is none)
findEarliestAfterMe(e, events) ==
    IF \E i \in 1..Len(events) : ~(events[i].key < e.key)
    THEN CHOOSE i \in 1..Len(events) :
             /\ ~(events[i].key < e.key)
             /\ \A j \in 1..(i - 1) : events[j].key < e.key
    ELSE Len(events) + 1

insertAt(s, i, x) == SubSeq(s, 1, i - 1) \o <<x>> \o SubSeq(s, i, Len(s))

\* processMessageEvent appending the event at the end of the timeline
processMessageEvent_append(W, r, e) ==
    Emit([W EXCEPT !.messageEvents[r] = Append(@, e)],
         "processMessageEvent", r, e)

\* Room::processMessageEvent
processMessageEvent(W, r, e) ==
    IF e = NoEvent /\ nullRead = "crash" THEN crash(W)
    ELSE Emit([W EXCEPT !.messageEvents[r] =
                  insertAt(@, findEarliestAfterMe(e, @), e)],
              "processMessageEvent", r, e)

\* Room::addMessage
addMessage(W, r, e) ==
    LET announce(W1) ==
            IF W1.crashed THEN W1 ELSE Emit(W1, "newMessage", r, e)
    IN  announce(processMessageEvent(W, r, e))

RECURSIVE receiptLoop(_, _, _)
\* the loops of the Receipt branch: lastReadEvent.insert(user, eventId)
receiptLoop(W, r, receipts) ==
    IF receipts = <<>> THEN W
    ELSE receiptLoop(
             [W EXCEPT !.lastReadEvent[r][Head(receipts)[2]] = Head(receipts)[1]],
             r, Tail(receipts))

\* processEphemeralEvent appending the typing users without clearing the list
processEphemeralEvent_noClear(W, r, e) ==
    LET W0 == Emit(W, "processEphemeralEvent", r, e)
    IN  IF e = NoEvent /\ nullRead = "crash" THEN crash(W0)
        ELSE IF e.type = "Typing"
        THEN Emit([W0 EXCEPT !.usersTyping[r] = @ \o e.ids], "typingChanged", r, e)
        ELSE IF e.type = "Receipt" THEN receiptLoop(W0, r, e.ids)
        ELSE W0

\* Room::processEphemeralEvent
processEphemeralEvent(W, r, e) ==
    LET W0 == Emit(W, "processEphemeralEvent", r, e)
    IN  IF e = NoEvent /\ nullRead = "crash" THEN crash(W0)
        ELSE IF e.type = "Typing"
        THEN Emit([W0 EXCEPT !.usersTyping[r] = e.ids], "typingChanged", r, e)
        ELSE IF e.type = "Receipt" THEN receiptLoop(W0, r, e.ids)
        ELSE W0

\* Room::setJoinState
setJoinState(W, r, state) ==
    IF state = W.joinState[r] THEN W
    ELSE Emit([W EXCEPT !.joinState[r] = state], "joinStateChanged", r, NoEvent)

RECURSIVE stateLoop(_, _, _)
\* for( Event* stateEvent: data.state )
stateLoop(W, r, events) ==
    IF events = <<>> \/ W.crashed THEN W
    ELSE stateLoop(processStateEvent(W, r, Head(events)), r, Tail(events))

\* the body of the loop over data.timeline handing the event to the state
\* event handler before it is inserted and announced
timelineStep_stateFirst(W, r, e) ==
    Emit(processMessageEvent(processStateEvent(W, r, e), r, e), "newMessage", r, e)

\* the body of the loop over data.timeline
timelineStep(W, r, e) ==
    LET rest(W1) ==
            IF W1.crashed THEN W1
            ELSE processStateEvent(Emit(W1, "newMessage", r, e), r, e)
    IN  rest(processMessageEvent(W, r, e))

RECURSIVE timelineLoop(_, _, _)
\* for( Event* timelineEvent: data.timeline )
timelineLoop(W, r, events) ==
    IF events = <<>> \/ W.crashed THEN W
    ELSE timelineLoop(timelineStep(W, r, Head(events)), r, Tail(events))

RECURSIVE ephemeralLoop(_, _, _)
\* for( Event* ephemeralEvent: data.ephemeral )
ephemeralLoop(W, r, events) ==
    IF events = <<>> \/ W.crashed THEN W
    ELSE ephemeralLoop(processEphemeralEvent(W, r, Head(events)), r, Tail(events))

\* the two counters at the end of Room::updateData
updateCounts(W, r, data) ==
    LET notifications(W1) ==
            IF data.notificationCount # W1.notificationCount[r]
            THEN Emit([W1 EXCEPT !.notificationCount[r] = data.notificationCount],
                      "notificationCountChanged", r, NoEvent)
            ELSE W1
    IN  IF W.crashed THEN W
        ELSE notifications(
                 IF data.highlightCount # W.highlightCount[r]
                 THEN Emit([W EXCEPT !.highlightCount[r] = data.highlightCount],
                           "highlightCountChanged", r, NoEvent)
                 ELSE W)

\* SyncRoomData
SyncRoomData(js, token, st, tl, eph, hc, nc) ==
    [joinState |-> js, timelinePrevBatch |-> token, state |-> st,
     timeline |-> tl, ephemeral |-> eph, highlightCount |-> hc,
     notificationCount |-> nc]

\* Room::updateData
updateData(W, r, data) ==
    LET W1 == IF W.prevBatch[r] = ""
              THEN [W EXCEPT !.prevBatch[r] = data.timelinePrevBatch]
              ELSE W
    IN  updateCounts(
            ephemeralLoop(
                timelineLoop(
                    stateLoop(setJoinState(W1, r, data.joinState), r, data.state),
                    r, data.timeline),
                r, data.ephemeral),
            r, data)

\* getPreviousContent without the test of gettingNewContent
getPreviousContent_noGuard(W, r) ==
    Emit([W EXCEPT !.gettingNewContent[r] = TRUE,
                   !.jobs[r] = Append(@, W.prevBatch[r])],
         "getMessages", r, NoEvent)

\* Room::getPreviousContent
getPreviousContent(W, r) ==
    IF ~W.gettingNewContent[r]
    THEN Emit([W EXCEPT !.gettingNewContent[r] = TRUE,
                        !.jobs[r] = Append(@, W.prevBatch[r])],
              "getMessages", r, NoEvent)
    ELSE W

\* the loop over the fetched events treating each like a timeline event of
\* updateData, state event handler included
messagesLoop_stateDispatch(W, r, events) == timelineLoop(W, r, events)

RECURSIVE messagesLoop(_, _, _)
\* for( Event* event: realJob->events() )
messagesLoop(W, r, events) ==
    IF events = <<>> \/ W.crashed THEN W
    ELSE messagesLoop(addMessage(W, r, Head(events)), r, Tail(events))

\* the finished RoomMessagesJob, as Room::gotMessages reads it
JobResult(error, events, end) == [error |-> error, events |-> events, end |-> end]

\* gotMessages returning from the error branch without clearing the flag
gotMessages_errorReturns(W, r, job) ==
    IF job.error THEN Emit(W, "errorString", r, NoEvent)
    ELSE [messagesLoop(W, r, job.events) EXCEPT
             !.prevBatch[r] = job.end, !.gettingNewContent[r] = FALSE]

\* gotMessages clearing the flag in the error branch only
gotMessages_pageKeepsFlag(W, r, job) ==
    IF job.error
    THEN [Emit(W, "errorString", r, NoEvent) EXCEPT !.gettingNewContent[r] = FALSE]
    ELSE [messagesLoop(W, r, job.events) EXCEPT !.prevBatch[r] = job.end]

\* Room::gotMessages
gotMessages(W, r, job) ==
    LET finish(W1) ==
            IF W1.crashed THEN W1
            ELSE [W1 EXCEPT !.gettingNewContent[r] = FALSE]
        page(W1) ==
            IF W1.crashed THEN W1 ELSE [W1 EXCEPT !.prevBatch[r] = job.end]
    IN  finish(IF job.error THEN Emit(W, "errorString", r, NoEvent)
               ELSE page(messagesLoop(W, r, job.events)))

\* ------------------------------------------------------------------ initial state
RoomId == "!r:s"
emptyHash == [n \in Names |-> <<>>]

\* every order in which a hash may iterate over its keys
keyOrders(S) ==
    {p \in [1..Cardinality(S) -> S] :
        \A i, j \in 1..Cardinality(S) : i # j => p[i] # p[j]}

\* Room::Room for both rooms, and the Connection they belong to.  The
\* constructor leaves highlightCount and notificationCount uninitialised:
\* `counts` are the values they may hold; `reads` are the outcomes of a read
\* through a null Event* the build may have.
InitRoom(counts, observed, reads) ==
    /\ id = [r \in Rooms |-> RoomId]
    /\ name = [r \in Rooms |-> ""]
    /\ canonicalAlias = [r \in Rooms |-> ""]
    /\ aliases = [r \in Rooms |-> ""]
    /\ topic = [r \in Rooms |-> ""]
    /\ displayname = [r \in Rooms |-> "Empty room <" \o RoomId \o ">"]
    /\ joinState = [r \in Rooms |-> "Join"]
    /\ highlightCount \in [Rooms -> counts]
    /\ notificationCount \in [Rooms -> counts]
    /\ users = [r \in Rooms |-> emptyHash]
    /\ usersTyping = [r \in Rooms |-> <<>>]
    /\ usersLeft = [r \in Rooms |-> <<>>]
    /\ lastReadEvent = [r \in Rooms |-> [u \in Users |-> ""]]
    /\ prevBatch = [r \in Rooms |-> ""]
    /\ gettingNewContent = [r \in Rooms |-> FALSE]
    /\ messageEvents = [r \in Rooms |-> <<>>]
    /\ userName = [u \in Users |-> ""]
    /\ nameChanged = [u \in Users |-> <<>>]
    /\ jobs = [r \in Rooms |-> <<>>]
    /\ me \in Users
    /\ debugBuild \in BOOLEAN
    /\ hashOrder \in keyOrders(Names)
    /\ synced = [r \in Rooms |-> FALSE]
    /\ spy = observed
    /\ nullRead \in reads
    /\ crashed = FALSE
    /\ log = <<>>

\* the initial states of the runs whose inputs hold no null event, where the
\* outcome of reading through one makes no difference
InitWith(counts, observed) == InitRoom(counts, observed, {"crash"})

\* the state after a handler returned W; a terminated process takes no step
Set(W) ==
    /\ ~crashed
    /\ crashed' = W.crashed
    /\ id' = W.id
    /\ name' = W.name
    /\ canonicalAlias' = W.canonicalAlias
    /\ aliases' = W.aliases
    /\ topic' = W.topic
    /\ displayname' = W.displayname
    /\ joinState' = W.joinState
    /\ highlightCount' = W.highlightCount
    /\ notificationCount' = W.notificationCount
    /\ users' = W.users
    /\ usersTyping' = W.usersTyping
    /\ usersLeft' = W.usersLeft
    /\ lastReadEvent' = W.lastReadEvent
    /\ prevBatch' = W.prevBatch
    /\ gettingNewContent' = W.gettingNewContent
    /\ messageEvents' = W.messageEvents
    /\ userName' = W.userName
    /\ nameChanged' = W.nameChanged
    /\ jobs' = W.jobs
    /\ log' = IF spy THEN W.log ELSE <<>>
    /\ UNCHANGED <<me, debugBuild, hashOrder, spy, nullRead>>

\* ------------------------------------------------------------------ actions
\* the program state at a call, the observer's record starting with the call
Called(what, r, arg) == [World EXCEPT !.log = <<Entry(what, r, arg)>>]

\* Room::addInitialState: one state event handed to processStateEvent
AddInitialState(r, e) ==
    /\ Set(processStateEvent(Called("addInitialState", r, e), r, e))
    /\ UNCHANGED synced

\* a User of the connection is renamed by something other than this room's
\* events (another room's member event, a profile update)
UserNameChange(u, n) ==
    /\ Set(userSetName(Called("setName", 0, NoEvent), u, n))
    /\ UNCHANGED synced

\* Room::userRenamed invoked as a slot with an arbitrary old name
UserRenamed(r, u, oldName) ==
    /\ Set(userRenamed(Called("userRenamed", r, NoEvent), r, u, oldName))
    /\ UNCHANGED synced

\* Room::addMessage
AddMessage(r, e) ==
    /\ Len(messageEvents[r]) < MaxTimeline
    /\ Set(addMessage(Called("addMessage", r, e), r, e))
    /\ UNCHANGED synced

\* Room::updateData
UpdateData(r, data) ==
    /\ Len(messageEvents[r]) + Len(data.timeline) <= MaxTimeline
    /\ Set(updateData(Called("updateData", r, data), r, data))
    /\ synced' = [synced EXCEPT ![r] = TRUE]

\* Room::getPreviousContent
GetPreviousContent(r) ==
    /\ Len(jobs[r]) < MaxJobs
    /\ Set(getPreviousContent(Called("getPreviousContent", r, NoEvent), r))
    /\ UNCHANGED synced

\* a RoomMessagesJob of room r finishes: its result signal runs gotMessages
GotMessages(r, i, job) ==
    /\ i \in 1..Len(jobs[r])
    /\ Len(messageEvents[r]) + Len(job.events) <= MaxTimeline
    /\ Set(gotMessages(
               [Called("gotMessages", r, job) EXCEPT !.jobs[r] =
                   SubSeq(@, 1, i - 1) \o SubSeq(@, i + 1, Len(@))],
               r, job))
    /\ UNCHANGED synced

\* ------------------------------------------------------------------ specifications
Members == 1..NumMembers

MemberEvents ==
    {RoomMemberEvent(u, m, n) : u \in Members, m \in Memberships, n \in Names}
NamingEvents ==
    {RoomNameEvent(n) : n \in RoomNames}
        \cup {RoomCanonicalAliasEvent(a) : a \in Aliases}

\* Room 1 receives member and naming state events; users are renamed.
InitMembers == InitWith({0}, FALSE) /\ me \in Members
NextMembers ==
    \/ \E e \in MemberEvents \cup NamingEvents : AddInitialState(1, e)
    \/ \E u \in Members, n \in Names : UserNameChange(u, n)
    \/ \E u \in Members, n \in Names : UserRenamed(1, u, n)
SpecMembers == InitMembers /\ [][NextMembers]_vars

\* every sequence over S of length 0..n
RECURSIVE SeqsUpTo(_, _)
SeqsUpTo(S, n) ==
    IF n = 0 THEN {<<>>}
    ELSE LET shorter == SeqsUpTo(S, n - 1)
         IN  shorter \cup {Append(q, x) : q \in shorter, x \in S}

MessageEvents == {RoomMessageEvent(k) : k \in 1..MaxKey}
Pages == SeqsUpTo(MessageEvents, MaxPage)
JobResults ==
    {JobResult(TRUE, <<>>, "")}
        \cup {JobResult(FALSE, p, t) : p \in Pages, t \in Tokens}

\* the sync batches of the pagination runs: a token and timeline messages
PaginationBatches ==
    {SyncRoomData("Join", t, <<>>, p, <<>>, 0, 0) : t \in Tokens, p \in Pages}

\* the settings the display name alone depends on, fixed
PlainSettings ==
    /\ me = 1
    /\ debugBuild = FALSE
    /\ hashOrder[1] = ""

\* Room 1 is synced with message batches, given single messages, and asked
\* for older content; the jobs finish with an error or with a page.
InitPagination == InitWith({0}, TRUE) /\ PlainSettings
NextPagination ==
    \/ \E data \in PaginationBatches : UpdateData(1, data)
    \/ \E e \in MessageEvents : AddMessage(1, e)
    \/ GetPreviousContent(1)
    \/ \E i \in 1..MaxJobs, job \in JobResults : GotMessages(1, i, job)
SpecPagination == InitPagination /\ [][NextPagination]_vars

\* Room 1 receives member, naming and alias state events under the eyes of an
\* observer; users are renamed and rename notifications are repeated.
AliasesEvents == {RoomAliasesEvent(a) : a \in Aliases}
ObservedEvents == MemberEvents \cup NamingEvents \cup AliasesEvents
InitObserved == InitWith({0}, TRUE) /\ me \in Members
NextObserved ==
    \/ \E e \in ObservedEvents : AddInitialState(1, e)
    \/ \E u \in Members, n \in Names : UserNameChange(u, n)
    \/ \E u \in Members, n \in Names : UserRenamed(1, u, n)
SpecObserved == InitObserved /\ [][NextObserved]_vars

\* Both rooms of the connection receive Join and Leave events of users
\* without a display name and room name events, each in its own order.
PairEvents ==
    {RoomMemberEvent(u, m, "") : u \in Members, m \in {"Join", "Leave"}}
        \cup {RoomNameEvent(n) : n \in RoomNames}
InitPair == InitWith({0}, FALSE) /\ me \in Members
NextPair == \E r \in Rooms, e \in PairEvents : AddInitialState(r, e)
SpecPair == InitPair /\ [][NextPair]_vars

\* Room 1 is synced with batches of state, timeline and ephemeral events; a
\* timeline event may be a message or a state event.
BatchStateEvents == {RoomTopicEvent("News"), RoomMemberEvent(1, "Join", "")}
BatchTimelineEvents == {RoomMessageEvent(2), RoomNameEvent("Team")}
BatchEphemeralEvents == {TypingEvent(<<1>>), ReceiptEvent("$m", <<<<"$m", 1>>>>)}
\* every list of distinct elements of S
orderings(S) ==
    {q \in SeqsUpTo(S, Cardinality(S)) :
        \A i, j \in 1..Len(q) : i # j => q[i] # q[j]}
Batches ==
    {SyncRoomData("Join", "t1", st, tl, eph, 0, 0) :
        st \in orderings(BatchStateEvents),
        tl \in orderings(BatchTimelineEvents),
        eph \in orderings(BatchEphemeralEvents)}
InitBatch == InitWith({0}, TRUE) /\ PlainSettings
NextBatch == \E data \in Batches : UpdateData(1, data)
SpecBatch == InitBatch /\ [][NextBatch]_vars

\* Room 1 is joined and left by every user of the connection, none of them
\* with a display name.
CrowdEvents ==
    {RoomMemberEvent(u, m, "") : u \in Users, m \in {"Join", "Leave"}}
InitCrowd == InitWith({0}, FALSE) /\ ~debugBuild /\ hashOrder[1] = ""
NextCrowd == \E e \in CrowdEvents : AddInitialState(1, e)
SpecCrowd == InitCrowd /\ [][NextCrowd]_vars

\* Room 1 is synced with batches whose lists may hold a null event, and is
\* handed a null state event directly.
NullBatches ==
    {SyncRoomData("Join", "t1", st, tl, eph, 0, 0) :
        st \in orderings({RoomTopicEvent("News"), NoEvent}),
        tl \in orderings({RoomMessageEvent(2), NoEvent}),
        eph \in orderings({TypingEvent(<<1>>), NoEvent})}
InitNull == InitRoom({0}, TRUE, NullReads) /\ PlainSettings
NextNull ==
    \/ \E data \in NullBatches : UpdateData(1, data)
    \/ AddInitialState(1, NoEvent)
SpecNull == InitNull /\ [][NextNull]_vars

\* Room 1 is synced with batches of Typing and Receipt events, with and
\* without a member event, and receives topic events.
TypingEvents == {TypingEvent(l) : l \in {<<>>, <<1>>, <<2, 1>>}}
TypingBatches ==
    {SyncRoomData("Join", "t1", st, <<>>, eph, 0, 0) :
        st \in orderings({RoomMemberEvent(1, "Join", "")}),
        eph \in SeqsUpTo(TypingEvents \cup {ReceiptEvent("$m", <<<<"$m", 1>>>>)},
                         MaxPage)}
InitTyping == InitWith({0}, TRUE) /\ PlainSettings
NextTyping ==
    \/ \E data \in TypingBatches : UpdateData(1, data)
    \/ \E t \in Topics : AddInitialState(1, RoomTopicEvent(t))
SpecTyping == InitTyping /\ [][NextTyping]_vars

\* Room 1 is asked for older content and the pages that arrive hold messages
\* and state events; sync batches bring the same kinds of event.
BackfillEvents ==
    {RoomMessageEvent(2), RoomNameEvent("Team"), RoomMemberEvent(1, "Join", "")}
BackfillResults ==
    {JobResult(TRUE, <<>>, "")}
        \cup {JobResult(FALSE, p, "t2") : p \in orderings(BackfillEvents)}
BackfillBatches ==
    {SyncRoomData("Join", "t1", <<>>, tl, <<>>, 0, 0) :
        tl \in orderings({RoomMessageEvent(2), RoomNameEvent("")})}
InitBackfill == InitWith({0}, TRUE) /\ PlainSettings
NextBackfill ==
    \/ \E data \in BackfillBatches : UpdateData(1, data)
    \/ GetPreviousContent(1)
    \/ \E i \in 1..MaxJobs, job \in BackfillResults : GotMessages(1, i, job)
SpecBackfill == InitBackfill /\ [][NextBackfill]_vars

\* Room 1 is synced, handed state events and asked for older content, and
\* every RoomMessagesJob that was started finishes: the job emits result, with
\* or without an error, and gotMessages runs.
FetchBatches ==
    {SyncRoomData("Join", t, <<>>, <<>>, eph, 0, 0) :
        t \in Tokens, eph \in orderings({TypingEvent(<<1>>)})}
FetchResults ==
    {JobResult(TRUE, <<>>, "")}
        \cup {JobResult(FALSE, p, t) :
                 p \in orderings({RoomMessageEvent(1)}), t \in Tokens}
InitFetch == InitWith({0}, TRUE) /\ PlainSettings
JobFinishes == \E i \in 1..MaxJobs, job \in FetchResults : GotMessages(1, i, job)
NextFetch ==
    \/ \E data \in FetchBatches : UpdateData(1, data)
    \/ \E t \in Topics : AddInitialState(1, RoomTopicEvent(t))
    \/ GetPreviousContent(1)
    \/ JobFinishes
SpecFetch == InitFetch /\ [][NextFetch]_vars /\ WF_vars(JobFinishes)

\* The server's history of the room is the events RoomMessageEvent(1),
\* RoomMessageEvent(2), ... in this order.  Token(p) stands for the place just
\* before event p: a sync batch bringing events p, p + 1, ... carries Token(p),
\* and a fetch from Token(p) returns the events just older than p, newest
\* first, with the token of the place it stopped at, or no token (or the token
\* of the start) when it reached the start of the history.
Token(p) == "t" \o ToString(p)
Place(token) == CHOOSE p \in 1..(MaxKey + 1) : Token(p) = token
Newest ==
    IF messageEvents[1] = <<>> THEN 0
    ELSE messageEvents[1][Len(messageEvents[1])].key
EventsFrom(p, n) == [i \in 1..n |-> RoomMessageEvent(p + i - 1)]
OlderThan(p) ==
    [i \in 1..(IF p - 1 < MaxPage THEN p - 1 ELSE MaxPage) |->
        RoomMessageEvent(p - i)]
HistoryBatches ==
    {SyncRoomData(js, Token(p), <<>>, EventsFrom(p, n), <<>>, 0, 0) :
        js \in JoinStates, p \in 1..MaxKey, n \in 1..MaxPage}
HistoryResults ==
    {JobResult(TRUE, <<>>, "")}
        \cup {JobResult(FALSE, OlderThan(p), t) :
                 p \in 1..(MaxKey + 1),
                 t \in {""} \cup {Token(q) : q \in 1..MaxKey}}
\* updateData with a batch of the events that follow the newest the room has
HistorySync(data) ==
    /\ data.timeline[Len(data.timeline)].key <= MaxKey
    /\ Newest > 0 => data.timeline[1].key = Newest + 1
    /\ UpdateData(1, data)
\* job i finishes with an error, or with what the server answers to its fetch
HistoryFetched(i, job) ==
    /\ i \in 1..Len(jobs[1])
    /\ \/ job.error
       \/ /\ jobs[1][i] # ""
          /\ job.events = OlderThan(Place(jobs[1][i]))
          /\ LET stop == Place(jobs[1][i]) - Len(job.events)
             IN  IF stop > 1 THEN job.end = Token(stop)
                 ELSE job.end \in {"", Token(1)}
    /\ GotMessages(1, i, job)
InitHistory == InitWith({0}, TRUE) /\ PlainSettings
NextHistory ==
    \/ \E data \in HistoryBatches : HistorySync(data)
    \/ GetPreviousContent(1)
    \/ \E i \in 1..MaxJobs, job \in HistoryResults : HistoryFetched(i, job)
SpecHistory == InitHistory /\ [][NextHistory]_vars

\* ------------------------------------------------------------------ claims
occurrences(s, x) == Cardinality({i \in 1..Len(s) : s[i] = x})
\* how often user u is bound in the membership registry of room r
registered(r, u) == occurrences(hashAllValues(users[r]), u)

\* C1: for every sequence of RoomMember Join and Leave events, no user is in
\* the membership registry and in the left-users list of the room at once, and
\* each of the two collections holds the user at most once.
C1_RegistryAndLeftExclusive ==
    \A u \in Users :
        /\ ~(registered(1, u) > 0 /\ contains(usersLeft[1], u))
        /\ registered(1, u) <= 1
        /\ occurrences(usersLeft[1], u) <= 1

\* The part of C1 the code keeps: each collection holds a user at most once.
C1_AtMostOnce ==
    \A u \in Users :
        registered(1, u) <= 1 /\ occurrences(usersLeft[1], u) <= 1

\* C5: applying the same RoomMember Leave event twice in a row leaves the
\* membership registry and the left-users list as the first application left
\* them, whether or not the user was a tracked member before.
C5_LeaveIdempotent ==
    \A u \in Members, n \in Names :
        LET e == RoomMemberEvent(u, "Leave", n)
            once == processStateEvent(World, 1, e)
            twice == processStateEvent(once, 1, e)
        IN  /\ twice.users[1] = once.users[1]
            /\ twice.usersLeft[1] = once.usersLeft[1]

\* C5 witness: a Leave has been applied (a user is in the left-users list and
\* not registered) while another user is a tracked member, so that the next
\* Leave event may be a repeated one or one for a tracked member.
C5_Witness ==
    \E u, v \in Members :
        /\ contains(usersLeft[1], u) /\ registered(1, u) = 0
        /\ registered(1, v) = 1 /\ ~contains(usersLeft[1], v)

\* the operation the observer saw last
lastCall == IF log = <<>> THEN "" ELSE log[1].what
\* the last operation was the completion of a fetch job with an error
errorCompleted == lastCall = "gotMessages" /\ log[1].event.error
\* the last operation was the successful completion of a fetch job
pageCompleted == lastCall = "gotMessages" /\ ~log[1].event.error

\* C2: at most one backward-fetch job of the room is outstanding at any time,
\* and a getPreviousContent call made while gettingNewContent is true starts no
\* job and changes no attribute of the room.
C2_SingleFlight ==
    /\ [](Len(jobs[1]) <= 1)
    /\ [][(gettingNewContent[1] /\ lastCall' = "getPreviousContent")
             => (UNCHANGED <<roomVars, envVars>> /\ Len(log') = 1)]_vars

\* C2 witness: getPreviousContent was called while a fetch was in flight.
C2_Witness ==
    /\ gettingNewContent[1]
    /\ Len(jobs[1]) = 1
    /\ log = <<Entry("getPreviousContent", 1, NoEvent)>>

\* C3 as stated: when a fetch job completes with an error the flag is false,
\* the token is the one the fetch was issued with and the timeline is
\* unchanged; on success the flag is false too.
C3_ErrorKeepsIssuedToken ==
    [][/\ errorCompleted' =>
              /\ ~gettingNewContent'[1]
              /\ prevBatch'[1] = jobs[1][1]
              /\ messageEvents' = messageEvents
       /\ pageCompleted' => ~gettingNewContent'[1]]_vars

\* C3 amended: when a fetch job completes with an error the flag is false and
\* the completion changes neither the token nor the timeline; the token is the
\* one the fetch was issued with whenever that one was not empty; a following
\* getPreviousContent starts a fetch with the room's token.  On success the
\* flag is false too.
C3_ErrorKeepsToken ==
    /\ [][/\ errorCompleted' =>
                 /\ ~gettingNewContent'[1]
                 /\ prevBatch' = prevBatch
                 /\ jobs[1][1] # "" => prevBatch'[1] = jobs[1][1]
                 /\ messageEvents' = messageEvents
          /\ pageCompleted' => ~gettingNewContent'[1]]_vars
    /\ [](~gettingNewContent[1] =>
              getPreviousContent(World, 1).jobs[1] = <<prevBatch[1]>>)

\* C3 witness: a fetch issued with token "t1" has failed, with events in the
\* timeline.
C3_Witness ==
    /\ errorCompleted
    /\ ~gettingNewContent[1]
    /\ prevBatch[1] = "t1"
    /\ messageEvents[1] # <<>>

\* C4: no updateData call other than the first ever changes prevBatch.
C4_OnlyFirstSyncSetsToken ==
    [][(synced[1] /\ lastCall' = "updateData")
          => prevBatch'[1] = prevBatch[1]]_vars

sorted(events) ==
    \A i, j \in 1..Len(events) : i < j => events[i].key <= events[j].key

\* C6: the timeline is sorted by ordering key in every reachable state, and
\* an insert puts the event at the first position whose event is not before
\* it, leaving the order of the others as it was.
C6_TimelineSorted ==
    /\ sorted(messageEvents[1])
    /\ \A e \in MessageEvents :
           LET old == messageEvents[1]
               new == processMessageEvent(World, 1, e).messageEvents[1]
               i == findEarliestAfterMe(e, old)
           IN  /\ Len(new) = Len(old) + 1
               /\ new[i] = e
               /\ \A j \in 1..(i - 1) : new[j] = old[j] /\ old[j].key < e.key
               /\ \A j \in i..Len(old) : new[j + 1] = old[j]
               /\ i <= Len(old) => ~(old[i].key < e.key)

\* C6 witness: a fetched page put an event before everything that was in the
\* timeline, which holds a newer event.
C6_Witness ==
    /\ pageCompleted
    /\ log[1].event.events # <<>>
    /\ Len(messageEvents[1]) >= 2
    /\ messageEvents[1][1] = log[1].event.events[1]
    /\ messageEvents[1][1].key < messageEvents[1][Len(messageEvents[1])].key

\* the string Room::Room stores in displayname
placeholder == "Empty room <" \o RoomId \o ">"

\* C8: once the display name has been computed, the stored displayname is in
\* every reachable state the string the display name algorithm yields on the
\* current name, canonical alias, membership registry, left-users list and id.
C8_DisplaynameNeverStale ==
    displayname[1] # placeholder
        => displayname[1] = calculatedDisplayname(World, 1)

\* the observer saw the signal `what` of room r during the last operation
notified(what, r) ==
    \E i \in 1..Len(log) : log[i].what = what /\ log[i].room = r

\* C9: an operation that changes none of name, canonicalAlias, membership
\* registry and left-users list of the room emits no namesChanged.
C9_NoSpuriousNamesChanged ==
    [][(/\ name'[1] = name[1]
        /\ canonicalAlias'[1] = canonicalAlias[1]
        /\ users'[1] = users[1]
        /\ usersLeft'[1] = usersLeft[1])
          => ~notified("namesChanged", 1)']_vars

\* the users bound in the membership registry of room r
memberSet(r) ==
    {hashAllValues(users[r])[i] : i \in 1..Len(hashAllValues(users[r]))}
\* the users in the left-users list of room r
leftSet(r) == {usersLeft[r][i] : i \in 1..Len(usersLeft[r])}

\* C10: two rooms with the same id, name, canonical alias, set of members
\* and set of left users hold the same displayname once each has recomputed
\* it, whatever the histories that brought them there.
C10_DisplaynameDeterministic ==
    (/\ id[1] = id[2]
     /\ name[1] = name[2]
     /\ canonicalAlias[1] = canonicalAlias[2]
     /\ memberSet(1) = memberSet(2)
     /\ leftSet(1) = leftSet(2))
        => updateDisplayname(World, 1).displayname[1]
               = updateDisplayname(World, 2).displayname[2]

\* the handler calls and new-message notifications among the observer's entries
handlerCalls(entries) ==
    SelectSeq(entries,
              LAMBDA x : x.what \in {"processStateEvent", "processMessageEvent",
                                     "newMessage", "processEphemeralEvent"})
\* one entry `what` for each event of the list, in list order
callsOf(what, events) == [i \in 1..Len(events) |-> Entry(what, 1, events[i])]
RECURSIVE timelineCalls(_)
\* insert, new-message, state handler for each event of the list, in list order
timelineCalls(events) ==
    IF events = <<>> THEN <<>>
    ELSE <<Entry("processMessageEvent", 1, Head(events)),
           Entry("newMessage", 1, Head(events)),
           Entry("processStateEvent", 1, Head(events))>>
             \o timelineCalls(Tail(events))

\* C7: what one updateData call does with the events of its batch is, in this
\* order: the state handler on every event of data.state; for each event of
\* data.timeline in list order the insert into the timeline, the new-message
\* notification and the state handler; the ephemeral handler on every event
\* of data.ephemeral.
C7_BatchOrder ==
    lastCall = "updateData" =>
        LET data == log[1].event
        IN  handlerCalls(Tail(log)) =
                callsOf("processStateEvent", data.state)
                    \o timelineCalls(data.timeline)
                    \o callsOf("processEphemeralEvent", data.ephemeral)

\* C7 witness: a batch of two state, two timeline and two ephemeral events
\* was applied, and its first timeline event was a state event that took effect.
C7_Witness ==
    /\ lastCall = "updateData"
    /\ Len(log[1].event.state) = 2
    /\ Len(log[1].event.timeline) = 2
    /\ Len(log[1].event.ephemeral) = 2
    /\ log[1].event.timeline[1] = RoomNameEvent("Team")
    /\ name[1] = "Team"
    /\ Len(messageEvents[1]) >= 2

\* the user of S with the smallest id
smallest(S) == CHOOSE u \in S : \A v \in S : ~IdLess(v, u)

\* C11: with name and canonicalAlias empty and the local user in the registry
\* together with two or more other members, the displayname names the other
\* members with the smallest ids and never the local user: "A and B" for three
\* members, "A and N others" with N = member count - 3 for more.
C11_LocalUserNotNamed ==
    LET others == memberSet(1) \ {me}
        first == smallest(others)
        second == smallest(others \ {first})
        count == Cardinality(memberSet(1))
    IN  (/\ name[1] = "" /\ canonicalAlias[1] = ""
         /\ me \in memberSet(1)
         /\ Cardinality(others) >= 2)
            => displayname[1] =
                   IF count = 3
                   THEN roomMembername(World, 1, first) \o " and "
                            \o roomMembername(World, 1, second)
                   ELSE roomMembername(World, 1, first) \o " and "
                            \o ToString(count - 3) \o " others"

\* C12: while the name is not empty the displayname is the name, followed by
\* " <canonicalAlias>" when there is a canonical alias; while the name is empty
\* and there is a canonical alias the displayname is that alias; members, left
\* users and renames do not matter in either case.
C12_NamePrecedence ==
    /\ name[1] # "" =>
           displayname[1] =
               IF canonicalAlias[1] # ""
               THEN name[1] \o " <" \o canonicalAlias[1] \o ">"
               ELSE name[1]
    /\ (name[1] = "" /\ canonicalAlias[1] # "") =>
           displayname[1] = canonicalAlias[1]

\* C12 witness: the room is named "Team" with alias "#team:s", has a member
\* with a display name and a left user, and shows "Team <#team:s>".
C12_Witness ==
    /\ name[1] = "Team" /\ canonicalAlias[1] = "#team:s"
    /\ displayname[1] = "Team <#team:s>"
    /\ \E u \in memberSet(1) : userName[u] = "Ann"
    /\ usersLeft[1] # <<>>

\* the attributes of room r are the same in W1 and W2
sameRoom(W1, W2, r) ==
    /\ W1.name[r] = W2.name[r] /\ W1.canonicalAlias[r] = W2.canonicalAlias[r]
    /\ W1.aliases[r] = W2.aliases[r] /\ W1.topic[r] = W2.topic[r]
    /\ W1.displayname[r] = W2.displayname[r] /\ W1.joinState[r] = W2.joinState[r]
    /\ W1.highlightCount[r] = W2.highlightCount[r]
    /\ W1.notificationCount[r] = W2.notificationCount[r]
    /\ W1.users[r] = W2.users[r] /\ W1.usersTyping[r] = W2.usersTyping[r]
    /\ W1.usersLeft[r] = W2.usersLeft[r]
    /\ W1.lastReadEvent[r] = W2.lastReadEvent[r]
    /\ W1.prevBatch[r] = W2.prevBatch[r]
    /\ W1.gettingNewContent[r] = W2.gettingNewContent[r]
    /\ W1.messageEvents[r] = W2.messageEvents[r]
withoutNulls(events) == SelectSeq(events, LAMBDA e : e # NoEvent)

\* C13: a null event handed to the state event handler changes nothing and
\* terminates nothing; an updateData whose lists hold null events runs to its
\* end and leaves the room as the same batch without the null events does.
C13_NullEventsIgnored ==
    /\ [](sameRoom(processStateEvent(World, 1, NoEvent), World, 1)
             /\ ~processStateEvent(World, 1, NoEvent).crashed)
    /\ [][lastCall' = "updateData" =>
             LET data == log'[1].event
                 sound == [data EXCEPT !.state = withoutNulls(@),
                                       !.timeline = withoutNulls(@),
                                       !.ephemeral = withoutNulls(@)]
             IN  /\ ~crashed'
                 /\ sameRoom(World', updateData(World, 1, sound), 1)]_vars

\* C14: roomMembername(u) is u's id when u has no display name, the display
\* name when exactly one registry member is bound under it, and "name <id>"
\* in every other case, also when no registry member is bound under the name.
C14_MemberName ==
    \A u \in Users :
        roomMembername(World, 1, u) =
            IF userName[u] = "" THEN UserId(u)
            ELSE IF Len(users[1][userName[u]]) = 1 THEN userName[u]
            ELSE userName[u] \o " <" \o UserId(u) \o ">"

\* C15: after an updateData the typing list is the user list of the last
\* Typing event of the batch, and is unchanged when the batch has none; no
\* other operation changes the typing list.
C15_TypingReplaced ==
    [][/\ lastCall' = "updateData" =>
              LET typings == SelectSeq(log'[1].event.ephemeral,
                                       LAMBDA e : e.type = "Typing")
              IN  usersTyping'[1] =
                      IF typings = <<>> THEN usersTyping[1]
                      ELSE typings[Len(typings)].ids
       /\ lastCall' # "updateData" => usersTyping' = usersTyping]_vars

\* C15 witness: a batch with a Typing event listing a user followed by one
\* listing nobody was applied, and the typing list is empty.
C15_Witness ==
    /\ lastCall = "updateData"
    /\ log[1].event.ephemeral = <<TypingEvent(<<1>>), TypingEvent(<<>>)>>
    /\ usersTyping[1] = <<>>

\* the state after the fetch job of the last operation delivered its page, had
\* gotMessages handled each event as updateData handles a timeline event
asTimeline(W, job) ==
    [timelineLoop(W, 1, job.events) EXCEPT
        !.prevBatch[1] = job.end, !.gettingNewContent[1] = FALSE]

RECURSIVE merged(_, _)
\* the timeline after inserting each of the events, in list order
merged(timeline, events) ==
    IF events = <<>> THEN timeline
    ELSE merged(insertAt(timeline, findEarliestAfterMe(Head(events), timeline),
                         Head(events)),
                Tail(events))

RECURSIVE messageCalls(_)
\* insert and new-message for each event of the list, in list order
messageCalls(events) ==
    IF events = <<>> THEN <<>>
    ELSE <<Entry("processMessageEvent", 1, Head(events)),
           Entry("newMessage", 1, Head(events))>> \o messageCalls(Tail(events))

C17_BoundUnderCurrentName ==
    /\ \A u \in Users :
           registered(1, u) > 0 =>
               /\ registered(1, u) = 1
               /\ contains(users[1][userName[u]], u)
    /\ \A u \in Members, n \in Names :
           LET W == userRenamed(World, 1, u, n)
           IN  IF contains(users[1][n], u)
               THEN /\ occurrences(hashAllValues(W.users[1]), u) = 1
                    /\ contains(W.users[1][userName[u]], u)
                    /\ \A v \in Users \ {u}, m \in Names :
                           contains(W.users[1][m], v) = contains(users[1][m], v)
               ELSE sameRoom(W, World, 1) /\ W.log = <<>>

\* C17 witness: two members are bound under the same name "Ann", which both
\* took after they joined.
C17_Witness ==
    /\ Len(users[1]["Ann"]) = 2
    /\ users[1][""] = <<>>
    /\ \A u \in Members : userName[u] = "Ann" /\ registered(1, u) = 1

\* C18: the room is connected to a user's nameChanged signal exactly when the
\* user is in its membership registry, and then exactly once.
C18_SubscribedIffMember ==
    \A u \in Users :
        occurrences(nameChanged[u], 1) = IF registered(1, u) > 0 THEN 1 ELSE 0

\* C18 witness: one user joined, left and joined again, and is a connected
\* member; another left without being a member and is not connected.
C18_Witness ==
    \E u, v \in Members :
        /\ registered(1, u) = 1 /\ contains(usersLeft[1], u)
        /\ nameChanged[u] = <<1>>
        /\ registered(1, v) = 0 /\ contains(usersLeft[1], v)
        /\ nameChanged[v] = <<>>

\* C19: whenever gettingNewContent is true it becomes false again, given that
\* every started job finishes; and the flag goes from true to false in no
\* operation other than gotMessages.
C19_FlagCleared ==
    /\ gettingNewContent[1] ~> ~gettingNewContent[1]
    /\ [][(gettingNewContent[1] /\ ~gettingNewContent'[1])
             => lastCall' = "gotMessages"]_vars

\* C19 witness: after a sync, a fetch was started and its job has finished:
\* the flag is false and no job is outstanding.
C19_Witness ==
    /\ lastCall = "gotMessages"
    /\ synced[1]
    /\ ~gettingNewContent[1]
    /\ jobs[1] = <<>>

\* C20: when every sync batch brings events the room has not been given and
\* every fetch returns the events just older than its token, no event is in
\* the timeline more than once.
C20_NoDuplicateHistory ==
    \A i, j \in 1..Len(messageEvents[1]) :
        i # j => messageEvents[1][i] # messageEvents[1][j]

====
